---- MODULE Spec2Model ----
(***************************************************************************)
(* Model of styxdocker (src/src/styxdocker/__init__.py): the Docker        *)
(* runner of Styx.  A Python str is a sequence of one-character strings,   *)
(* so that quoting, slicing and joining are computed character by          *)
(* character.  A value that may be None is a sequence of length 0 or 1.    *)
(***************************************************************************)
EXTENDS Integers, Sequences, FiniteSets, TLC

(* ---------------------------------------------------------------- bounds *)
\* longest host / container path of a direct _docker_mount call
MaxLen == 3
\* successful start_execution calls on one DockerRunner
MaxExec == 2
\* input_file calls on one _DockerExecution
MaxInputs == 2
\* children spawned
MaxRuns == 2
\* lines the child writes, both streams together
MaxWrites == 3
\* lines a pipe holds before the child's write blocks
PipeCap == 1

(* --------------------------------------------------------------- strings *)
None == <<>>
Some(v) == <<v>>

DQ == "\""
BS == "\\"

\* str.replace(old, new) for a one-character old
RECURSIVE Replace(_, _, _)
Replace(s, old, new) ==
    IF s = <<>> THEN <<>>
    ELSE (IF Head(s) = old THEN new ELSE <<Head(s)>>) \o Replace(Tail(s), old, new)

\* all strings over alphabet cs of length at most n
RECURSIVE StrsUpTo(_, _)
StrsUpTo(cs, n) ==
    IF n = 0 THEN {<<>>}
    ELSE LET shorter == StrsUpTo(cs, n - 1)
         IN shorter \cup {Append(s, c) : s \in shorter, c \in cs}

StartsWith(s, p) == Len(s) >= Len(p) /\ SubSeq(s, 1, Len(p)) = p
EndsWith(s, p) == Len(s) >= Len(p) /\ SubSeq(s, Len(s) - Len(p) + 1, Len(s)) = p

\* least index at which p occurs in s, 0 when it does not occur
Find(s, p) ==
    LET hits == {i \in 1..(Len(s) - Len(p) + 1) : SubSeq(s, i, i + Len(p) - 1) = p}
    IN IF hits = {} THEN 0 ELSE CHOOSE i \in hits : \A j \in hits : i <= j

L_type_bind_source == <<"t","y","p","e","=","b","i","n","d",",","s","o","u","r","c","e","=">>
L_target == <<",","t","a","r","g","e","t","=">>
L_readonly == <<",","r","e","a","d","o","n","l","y">>
L_styx_input == <<"/","s","t","y","x","_","i","n","p","u","t","/">>
L_styx_output == <<"/","s","t","y","x","_","o","u","t","p","u","t">>
L_run == <<"r","u","n">>
L_rm == <<"-","-","r","m">>
L_u == <<"-","u">>
L_w == <<"-","w">>
L_mount == <<"-","-","m","o","u","n","t">>
L_entrypoint == <<"-","-","e","n","t","r","y","p","o","i","n","t">>
L_bin_bash == <<"/","b","i","n","/","b","a","s","h">>
L_env == <<"-","-","e","n","v">>
L_run_sh == <<".","/","r","u","n",".","s","h">>
L_docker == <<"d","o","c","k","e","r">>
L_styx_tmp == <<"s","t","y","x","_","t","m","p">>
L_shebang == <<"#","!","/","b","i","n","/","b","a","s","h","\n">>
L_script_name == <<"r","u","n",".","s","h">>
L_docker_args == <<"-"," ","D","o","c","k","e","r"," ","a","r","g","s",":"," ">>
L_quote_escape == <<"'","\"","'","\"","'">>

\* str.join
RECURSIVE Join(_, _)
Join(sep, items) ==
    IF items = <<>> THEN <<>>
    ELSE IF Len(items) = 1 THEN items[1]
    ELSE items[1] \o sep \o Join(sep, Tail(items))

\* str(n) for an int n >= 0
Digit(d) == <<"0","1","2","3","4","5","6","7","8","9">>[d + 1]
RECURSIVE Str(_)
Str(n) == IF n < 10 THEN <<Digit(n)>> ELSE Str(n \div 10) \o <<Digit(n % 10)>>

(* ----------------------------------------------------------------- shlex *)
\* the characters shlex.quote leaves alone: [a-zA-Z0-9_@%+=:,./-]
SafeChars == {"a","b","c","d","e","f","g","h","i","j","k","l","m","n","o","p","q",
              "r","s","t","u","v","w","x","y","z","A","B","C","D","E","F","G","H",
              "I","J","K","L","M","N","O","P","Q","R","S","T","U","V","W","X","Y",
              "Z","0","1","2","3","4","5","6","7","8","9","_","@","%","+","=",":",
              ",",".","/","-"}

shlex_quote(s) ==
    IF s = <<>> THEN <<"'", "'">>
    ELSE IF \A i \in 1..Len(s) : s[i] \in SafeChars THEN s
    ELSE <<"'">> \o Replace(s, "'", L_quote_escape) \o <<"'">>

shlex_join(split_command) ==
    Join(<<" ">>, [i \in 1..Len(split_command) |-> shlex_quote(split_command[i])])

(* --------------------------------------------------------------- pathlib *)
\* A PurePosixPath: whether it is anchored at the root, and its components.
RECURSIVE SplitSlash(_)
SplitSlash(s) ==
    LET i == Find(s, <<"/">>)
    IN IF i = 0 THEN <<s>>
       ELSE <<SubSeq(s, 1, i - 1)>> \o SplitSlash(SubSeq(s, i + 1, Len(s)))

IsPart(p) == p # <<>> /\ p # <<".">>

Path(s) == [root |-> StartsWith(s, <<"/">>), parts |-> SelectSeq(SplitSlash(s), IsPart)]

PathName(p) == IF p.parts = <<>> THEN <<>> ELSE p.parts[Len(p.parts)]

\* a parent that is the path itself
PathParentSelf(p) == p

PathParent(p) ==
    IF p.parts = <<>> THEN p
    ELSE [p EXCEPT !.parts = SubSeq(p.parts, 1, Len(p.parts) - 1)]

\* p / s
PathJoin(p, s) ==
    IF StartsWith(s, <<"/">>) THEN Path(s)
    ELSE [p EXCEPT !.parts = p.parts \o Path(s).parts]

as_posix(p) ==
    IF p.root THEN <<"/">> \o Join(<<"/">>, p.parts)
    ELSE IF p.parts = <<>> THEN <<".">>
    ELSE Join(<<"/">>, p.parts)

\* the working directory of the process
Cwd == Path(<<"/", "w">>)

absolute(p) == IF p.root THEN p ELSE [root |-> TRUE, parts |-> Cwd.parts \o p.parts]

(* ---------------------------------------------------------- _docker_mount *)
_docker_mount(host_path, container_path, readonly) ==
    LET host_path1 == Replace(host_path, DQ, <<BS, DQ>>)
        container_path1 == Replace(container_path, DQ, <<BS, DQ>>)
        host_path2 == Replace(host_path1, BS, <<BS, BS>>)
        container_path2 == Replace(container_path1, BS, <<BS, BS>>)
        readonly_str == IF readonly THEN L_readonly ELSE <<>>
    IN L_type_bind_source \o host_path2 \o L_target \o container_path2 \o readonly_str

(* ------------------------------------------------------------------ state *)
VARIABLES
    mount_args,     \* arguments of a direct _docker_mount call
    mount_ret,      \* its return value, None before the call
    _HOST_UID,      \* os.getuid() on posix, None elsewhere
    init_args,      \* the arguments DockerRunner.__init__ was called with
    starts,         \* start_execution calls made from threads: where each thread
                    \* is, and per execution whether its call overlapped another
    runner,         \* the DockerRunner
    executions,     \* the _DockerExecution objects start_execution returned, in order
    resolved,       \* per execution, the paths input_file returned, in order
    fs_dirs,        \* the directories the program created
    fs_files,       \* the files the program wrote: (path, content), one per path
    spawned,        \* per Popen so far, the execution that ran it
    outcome,        \* the last finished call: what it was given, returned or raised
    pc,             \* where the caller is: "idle", or inside run
    run_self,       \* run's self: index into executions (0 before any run)
    cargs,          \* run's cargs
    docker_command, \* run's docker_command, None before it is built
    process,        \* the child: what it writes, where it is, how it exits
    stdout_pipe,    \* process.stdout
    stderr_pipe,    \* process.stderr
    pool,           \* the two tasks of the ThreadPoolExecutor
    sink_out,       \* the values _stdout_handler was called with, in order
    sink_err,       \* the values _stderr_handler was called with, in order
    return_code     \* run's return_code, None before poll()

vars == <<mount_args, mount_ret, _HOST_UID, init_args, starts, runner, executions, resolved, fs_dirs,
          fs_files, spawned, outcome, pc, run_self, cargs, docker_command,
          process, stdout_pipe, stderr_pipe, pool, sink_out, sink_err, return_code>>

vars_mount == <<mount_args, mount_ret>>
vars_config == <<_HOST_UID, init_args>>
vars_runner == <<vars_config, starts, runner, executions, resolved>>
vars_fs == <<fs_dirs, fs_files>>
vars_pump == <<process, stdout_pipe, stderr_pipe, pool, sink_out, sink_err>>
vars_run == <<spawned, pc, run_self, cargs, docker_command, return_code>>

(* ------------------------------------------------------------------ dicts *)
\* A dict is the sequence of its (key, value) items, in insertion order.
DictHas(d, k) == \E i \in 1..Len(d) : d[i][1] = k
DictGet(d, k, default) ==
    IF DictHas(d, k) THEN d[CHOOSE i \in 1..Len(d) : d[i][1] = k][2] ELSE default

(* ----------------------------------------------------------- call results *)
Returned(op, args, ret) == [op |-> op, args |-> args, ret |-> ret, exc |-> None]
Raised(op, args, exc) == [op |-> op, args |-> args, ret |-> [none |-> TRUE], exc |-> Some(exc)]
\* a call that has not finished yet
Pending(op, args) == [op |-> op, args |-> args, ret |-> [pending |-> TRUE], exc |-> None]
NoCall == Returned("none", [none |-> TRUE], [none |-> TRUE])

ValueError == [type |-> "ValueError"]
TypeError == [type |-> "TypeError"]
\* the error of a failed filesystem call, as the platform raised it
OSError(call) == [type |-> "OSError", call |-> call]

\* StyxDockerError.__init__: the fields handed to StyxRuntimeError
StyxDockerError(code, command_args, docker_args) ==
    [type |-> "StyxDockerError",
     return_code |-> code,
     command_args |-> command_args,
     message_extra |-> IF docker_args # <<>>
                       THEN Some(L_docker_args \o shlex_join(docker_args))
                       ELSE None]

(* ----------------------------------------------------------- DockerRunner *)
Truthy(opt_int) == opt_int # None /\ opt_int[1] # 0

\* DockerRunner.__init__; urandom is the value os.urandom(8).hex() returned
DockerRunner(image_overrides, docker_executable, user_id, data_dir, environ, host_uid, urandom) ==
    [data_dir |-> Path(IF data_dir # None /\ data_dir[1] # <<>>
                       THEN data_dir[1] ELSE L_styx_tmp),
     uid |-> urandom,
     execution_counter |-> 0,
     user_id |-> IF Truthy(user_id) THEN user_id ELSE host_uid,
     docker_executable |-> docker_executable,
     image_overrides |-> IF image_overrides # None THEN image_overrides[1] ELSE <<>>,
     environ |-> IF environ # None THEN environ[1] ELSE <<>>]

\* an execution whose slot counter starts at 1
_DockerExecutionFromOne(output_dir, metadata, container_tag, docker_user_id, docker_executable, environ) ==
    [input_mounts |-> <<>>,
     input_file_next_id |-> 1,
     output_dir |-> output_dir,
     metadata |-> metadata,
     container_tag |-> container_tag,
     docker_user_id |-> docker_user_id,
     docker_executable |-> docker_executable,
     environ |-> environ]

\* _DockerExecution.__init__
_DockerExecution(output_dir, metadata, container_tag, docker_user_id, docker_executable, environ) ==
    [input_mounts |-> <<>>,
     input_file_next_id |-> 0,
     output_dir |-> output_dir,
     metadata |-> metadata,
     container_tag |-> container_tag,
     docker_user_id |-> docker_user_id,
     docker_executable |-> docker_executable,
     environ |-> environ]

\* the arguments of a DockerRunner(...) call
InitArgs(image_overrides, docker_executable, user_id, data_dir, environ) ==
    [image_overrides |-> image_overrides, docker_executable |-> docker_executable,
     user_id |-> user_id, data_dir |-> data_dir, environ |-> environ]

(* -------------------------------------------------- what stays as it was *)
\* the threads that may call start_execution on the one DockerRunner
Threads == {1, 2}

\* no thread is inside start_execution
NoStarts == [thread |-> [t \in Threads |-> [pc |-> "idle"]], overlapped |-> <<>>]

NoProcess == [script |-> <<>>, status |-> 0, ip |-> 1, exited |-> FALSE,
              returncode |-> None]
NoPipe == [buf |-> <<>>, closed |-> FALSE]
NoPool == [stdout |-> "none", stderr |-> "none"]

InitMountIdle == mount_args = [none |-> TRUE] /\ mount_ret = None

InitRunIdle ==
    /\ fs_dirs = {}
    /\ fs_files = {}
    /\ spawned = <<>>
    /\ outcome = NoCall
    /\ pc = "idle"
    /\ run_self = 0
    /\ cargs = <<>>
    /\ docker_command = None
    /\ process = NoProcess
    /\ stdout_pipe = NoPipe
    /\ stderr_pipe = NoPipe
    /\ pool = NoPool
    /\ sink_out = <<>>
    /\ sink_err = <<>>
    /\ return_code = None

(* ------------------------------------------- specification: _docker_mount *)
MountAlphabet == {"a", DQ, BS}

InitMount ==
    /\ mount_args \in [host_path : StrsUpTo(MountAlphabet, MaxLen),
                       container_path : StrsUpTo(MountAlphabet, MaxLen),
                       readonly : BOOLEAN]
    /\ mount_ret = None
    /\ _HOST_UID = None
    /\ init_args = InitArgs(None, L_docker, None, None, None)
    /\ starts = NoStarts
    /\ runner = DockerRunner(None, L_docker, None, None, None, None, <<"0">>)
    /\ executions = <<>>
    /\ resolved = <<>>
    /\ InitRunIdle

CallDockerMount ==
    /\ mount_ret = None
    /\ mount_ret' = Some(_docker_mount(mount_args.host_path,
                                       mount_args.container_path,
                                       mount_args.readonly))
    /\ UNCHANGED <<mount_args, vars_runner, vars_fs, vars_pump, vars_run, outcome>>

NextMount == CallDockerMount

SpecMount == InitMount /\ [][NextMount]_vars

(* -------------------------------------------------------- start_execution *)
ContainerTagVerbatim(image_overrides, tag) == tag

\* lines 222-224: self.image_overrides.get(tag, tag)
ContainerTag(image_overrides, tag) == DictGet(image_overrides, tag, tag)

\* a start that leaves the execution counter out of the directory name
NewExecutionUnnumbered(r, metadata) ==
    _DockerExecution(PathJoin(r.data_dir, r.uid \o <<"_">> \o metadata.name),
                     metadata, ContainerTag(r.image_overrides, metadata.container_image_tag[1]),
                     r.user_id, r.docker_executable, r.environ)

\* a start that names the directory after the counter as incremented
NewExecutionCountingFromOne(r, metadata) ==
    _DockerExecution(PathJoin(r.data_dir,
                              r.uid \o <<"_">> \o Str(r.execution_counter + 1) \o <<"_">>
                                  \o metadata.name),
                     metadata, ContainerTag(r.image_overrides, metadata.container_image_tag[1]),
                     r.user_id, r.docker_executable, r.environ)

\* lines 222-235: the _DockerExecution of a start that passed the tag check
NewExecution(r, metadata) ==
    LET tag == metadata.container_image_tag[1]
        container_tag == ContainerTag(r.image_overrides, tag)
        execution_counter == r.execution_counter + 1
    IN _DockerExecution(
           PathJoin(r.data_dir,
                    r.uid \o <<"_">> \o Str(execution_counter - 1) \o <<"_">>
                        \o metadata.name),
           metadata, container_tag, r.user_id, r.docker_executable, r.environ)

\* start_execution with the counter incremented before the tag is looked at
start_execution_counting_first(metadata) ==
    /\ pc = "idle"
    /\ runner.execution_counter < MaxExec
    /\ runner' = [runner EXCEPT !.execution_counter = @ + 1]
    /\ IF metadata.container_image_tag = None
       THEN /\ outcome' = Raised("start_execution", [metadata |-> metadata], ValueError)
            /\ UNCHANGED <<executions, resolved>>
       ELSE /\ executions' = Append(executions, NewExecution(runner, metadata))
            /\ resolved' = Append(resolved, <<>>)
            /\ outcome' = Returned("start_execution", [metadata |-> metadata],
                                   [execution |-> Len(executions) + 1])
    /\ UNCHANGED <<vars_mount, vars_config, starts, vars_fs, vars_pump, vars_run>>

start_execution(metadata) ==
    /\ pc = "idle"
    /\ IF metadata.container_image_tag = None
       THEN /\ outcome' = Raised("start_execution", [metadata |-> metadata], ValueError)
            /\ UNCHANGED <<runner, executions, resolved>>
       ELSE /\ runner.execution_counter < MaxExec
            /\ runner' = [runner EXCEPT !.execution_counter = @ + 1]
            /\ executions' = Append(executions, NewExecution(runner, metadata))
            /\ resolved' = Append(resolved, <<>>)
            /\ outcome' = Returned("start_execution", [metadata |-> metadata],
                                   [execution |-> Len(executions) + 1])
    /\ UNCHANGED <<vars_mount, vars_config, starts, vars_fs, vars_pump, vars_run>>

(* ------------------------------------------------------------- input_file *)
NextIdStale(id) == id

\* line 103: self.input_file_next_id += 1
NextId(id) == id + 1

input_file(self, host_file, resolve_parent, mutable) ==
    /\ pc = "idle"
    /\ self \in DOMAIN executions
    /\ Len(executions[self].input_mounts) < MaxInputs
    /\ LET e == executions[self]
           _host_file == Path(host_file)
           id == Str(e.input_file_next_id)
           local_file ==
               IF resolve_parent
               THEN L_styx_input \o id \o <<"/">> \o PathName(PathParent(_host_file))
               ELSE L_styx_input \o id \o <<"/">> \o PathName(_host_file)
           resolved_file ==
               IF resolve_parent
               THEN local_file \o <<"/">> \o PathName(_host_file)
               ELSE local_file
           mount ==
               IF resolve_parent
               THEN <<PathParent(_host_file), local_file, mutable>>
               ELSE <<_host_file, local_file, mutable>>
       IN /\ executions' = [executions EXCEPT ![self] =
                 [e EXCEPT !.input_mounts = Append(@, mount),
                           !.input_file_next_id = NextId(@)]]
          /\ resolved' = [resolved EXCEPT ![self] = Append(@, resolved_file)]
          /\ outcome' = Returned("input_file",
                 [self |-> self, host_file |-> host_file,
                  resolve_parent |-> resolve_parent, mutable |-> mutable],
                 [str |-> resolved_file])
    /\ UNCHANGED <<vars_mount, vars_config, starts, runner, vars_fs, vars_pump, vars_run>>

(* ------------------------------------------------------------ output_file *)
\* an output_file that makes sure the output directory is there
output_file_making_dir(self, local_file, optional) ==
    /\ pc = "idle"
    /\ self \in DOMAIN executions
    /\ outcome' = Returned("output_file",
           [self |-> self, local_file |-> local_file, optional |-> optional],
           [path |-> PathJoin(executions[self].output_dir, local_file)])
    /\ fs_dirs' = fs_dirs \cup {as_posix(executions[self].output_dir)}
    /\ UNCHANGED <<vars_mount, vars_runner, fs_files, vars_pump, vars_run>>

output_file(self, local_file, optional) ==
    /\ pc = "idle"
    /\ self \in DOMAIN executions
    /\ outcome' = Returned("output_file",
           [self |-> self, local_file |-> local_file, optional |-> optional],
           [path |-> PathJoin(executions[self].output_dir, local_file)])
    /\ UNCHANGED <<vars_mount, vars_runner, vars_fs, vars_pump, vars_run>>

(* -------------------------------------------------------------------- run *)
\* ThreadPoolExecutor(2)
max_workers == 2

Busy(p) == (IF p.stdout = "running" THEN 1 ELSE 0) + (IF p.stderr = "running" THEN 1 ELSE 0)

\* a pool of one worker thread: the second task waits for the first to end
ScheduleOneWorker(p) ==
    IF p.stdout = "queued" THEN [p EXCEPT !.stdout = "running"]
    ELSE IF p.stderr = "queued" /\ p.stdout = "done" THEN [p EXCEPT !.stderr = "running"]
    ELSE p

\* idle worker threads take the queued tasks, the first submitted first
Schedule(p) ==
    LET p1 == IF p.stdout = "queued" /\ Busy(p) < max_workers
              THEN [p EXCEPT !.stdout = "running"] ELSE p
    IN IF p1.stderr = "queued" /\ p1.stdout # "queued" /\ Busy(p1) < max_workers
       THEN [p1 EXCEPT !.stderr = "running"] ELSE p1

\* An element of a command list: a str, or (where the code puts one) a list of str.
StrArg(s) == [kind |-> "str", items |-> <<s>>]
ListArg(l) == [kind |-> "list", items |-> l]

\* lines 117-125 and 137-142: the mounts list
Mounts(e) ==
    LET n == Len(e.input_mounts)
        descriptor(k) ==
            IF k <= n
            THEN _docker_mount(as_posix(absolute(e.input_mounts[k][1])),
                               e.input_mounts[k][2], ~e.input_mounts[k][3])
            ELSE _docker_mount(as_posix(absolute(e.output_dir)), L_styx_output, FALSE)
    IN [i \in 1..(2 * (n + 1)) |->
           IF i % 2 = 1 THEN StrArg(L_mount) ELSE StrArg(descriptor(i \div 2))]

\* lines 144-146: one list ["--env", "KEY=VALUE"] per item of environ
EnvironArgArgs(e) ==
    [i \in 1..Len(e.environ) |->
        ListArg(<<L_env, e.environ[i][1] \o <<"=">> \o e.environ[i][2]>>)]

\* lines 148-161
DockerCommand(e) ==
    <<StrArg(e.docker_executable), StrArg(L_run), StrArg(L_rm)>>
    \o (IF Truthy(e.docker_user_id)
        THEN <<StrArg(L_u), StrArg(Str(e.docker_user_id[1]))>> ELSE <<>>)
    \o <<StrArg(L_w), StrArg(L_styx_output)>>
    \o Mounts(e)
    \o <<StrArg(L_entrypoint), StrArg(L_bin_bash)>>
    \o EnvironArgArgs(e)
    \o <<StrArg(e.container_tag), StrArg(L_run_sh)>>

\* the strings of a command all of whose elements are str
Strings(command) == [i \in 1..Len(command) |-> command[i].items[1]]

\* mkdir(parents=True, exist_ok=True): the directory and its missing ancestors
MadeDirs(dir) ==
    {as_posix([dir EXCEPT !.parts = SubSeq(dir.parts, 1, k)]) : k \in 1..Len(dir.parts)}

\* a mkdir(parents=True) that failed after making k of the ancestors
MadeDirsUpTo(dir, k) == {as_posix([dir EXCEPT !.parts = SubSeq(dir.parts, 1, j)]) : j \in 1..k}

\* a write_text that leaves the file as it was
WrittenNothing(files, path, content) == files

\* write_text: the file holds exactly the new content
Written(files, path, content) ==
    {f \in files : f.path # path} \cup {[path |-> path, content |-> content]}

RunScript(args) == L_shebang \o shlex_join(args) \o <<"\n">>

\* what the filesystem does to a run: nothing, or it fails one of the two calls
FsFaults == {"none", "mkdir", "write_text"}
NoFaults == {"none"}

\* lines 117-178: everything up to the child being spawned and the two tasks
\* submitted to the pool.  mkdir (line 128) or write_text (line 133) may raise
\* OSError; shlex.join of line 163 raises TypeError on an element that is not
\* a str.  An exception leaves run before docker_command is bound or used.
run(self, args, programs, faults) ==
    /\ pc = "idle"
    /\ self \in DOMAIN executions
    /\ Len(spawned) < MaxRuns
    /\ run_self' = self
    /\ cargs' = args
    /\ \E e \in {executions[self]}, fault \in faults :
          IF fault = "mkdir"
          THEN /\ \E k \in 0..(Len(e.output_dir.parts) - 1) :
                     fs_dirs' = fs_dirs \cup MadeDirsUpTo(e.output_dir, k)
               /\ docker_command' = None
               /\ outcome' = Raised("run", [self |-> self, cargs |-> args], OSError("mkdir"))
               /\ UNCHANGED <<fs_files, pc, spawned, vars_pump, return_code>>
          ELSE IF fault = "write_text"
          THEN /\ fs_dirs' = fs_dirs \cup MadeDirs(e.output_dir)
               /\ docker_command' = None
               /\ outcome' = Raised("run", [self |-> self, cargs |-> args],
                                    OSError("write_text"))
               /\ UNCHANGED <<fs_files, pc, spawned, vars_pump, return_code>>
          ELSE \E command \in {DockerCommand(e)} :
               /\ fs_dirs' = fs_dirs \cup MadeDirs(e.output_dir)
               /\ fs_files' = Written(fs_files,
                                      as_posix(PathJoin(e.output_dir, L_script_name)),
                                      RunScript(args))
               /\ docker_command' = Some(command)
               /\ IF \E i \in 1..Len(command) : command[i].kind # "str"
                  THEN /\ outcome' = Raised("run", [self |-> self, cargs |-> args],
                                            TypeError)
                       /\ UNCHANGED <<pc, spawned, vars_pump, return_code>>
                  ELSE /\ \E program \in programs :
                             process' = [script |-> program.script,
                                         status |-> program.status,
                                         ip |-> 1, exited |-> FALSE, returncode |-> None]
                       /\ spawned' = Append(spawned, self)
                       /\ stdout_pipe' = NoPipe
                       /\ stderr_pipe' = NoPipe
                       /\ pool' = Schedule([stdout |-> "queued", stderr |-> "queued"])
                       /\ sink_out' = <<>>
                       /\ sink_err' = <<>>
                       /\ return_code' = None
                       /\ pc' = "pool_exit"
                       /\ outcome' = Pending("run", [self |-> self, cargs |-> args])
    /\ UNCHANGED <<vars_mount, vars_runner>>

(* ------------------------------------------------------------ the child *)
\* The child writes the lines of its script in order; a write to a full pipe blocks.
child_write ==
    /\ pc # "idle"
    /\ ~process.exited
    /\ process.ip <= Len(process.script)
    /\ LET w == process.script[process.ip]
       IN IF w.stream = "stdout"
          THEN /\ Len(stdout_pipe.buf) < PipeCap
               /\ stdout_pipe' = [stdout_pipe EXCEPT !.buf = Append(@, w.line)]
               /\ UNCHANGED stderr_pipe
          ELSE /\ Len(stderr_pipe.buf) < PipeCap
               /\ stderr_pipe' = [stderr_pipe EXCEPT !.buf = Append(@, w.line)]
               /\ UNCHANGED stdout_pipe
    /\ process' = [process EXCEPT !.ip = @ + 1]
    /\ UNCHANGED <<vars_mount, vars_runner, vars_fs, vars_run, outcome, pool,
                   sink_out, sink_err>>

\* The child exits: both write ends close.
child_exit ==
    /\ pc # "idle"
    /\ ~process.exited
    /\ process.ip > Len(process.script)
    /\ process' = [process EXCEPT !.exited = TRUE]
    /\ stdout_pipe' = [stdout_pipe EXCEPT !.closed = TRUE]
    /\ stderr_pipe' = [stderr_pipe EXCEPT !.closed = TRUE]
    /\ UNCHANGED <<vars_mount, vars_runner, vars_fs, vars_run, outcome, pool,
                   sink_out, sink_err>>

(* ------------------------------------------------------- the two drains *)
\* line[:-1]
AllButLast(line) == SubSeq(line, 1, Len(line) - 1)

\* lines 177-178: one turn of the generator: next line of the stream, handler called
drain(t) ==
    /\ pool[t] = "running"
    /\ IF t = "stdout"
       THEN /\ stdout_pipe.buf # <<>>
            /\ sink_out' = Append(sink_out, AllButLast(Head(stdout_pipe.buf)))
            /\ stdout_pipe' = [stdout_pipe EXCEPT !.buf = Tail(@)]
            /\ UNCHANGED <<stderr_pipe, sink_err>>
       ELSE /\ stderr_pipe.buf # <<>>
            /\ sink_err' = Append(sink_err, AllButLast(Head(stderr_pipe.buf)))
            /\ stderr_pipe' = [stderr_pipe EXCEPT !.buf = Tail(@)]
            /\ UNCHANGED <<stdout_pipe, sink_out>>
    /\ UNCHANGED <<vars_mount, vars_runner, vars_fs, vars_run, outcome, process, pool>>

\* the stream is at end-of-file: the generator is exhausted, the task is done
drain_eof(t) ==
    /\ pool[t] = "running"
    /\ IF t = "stdout"
       THEN stdout_pipe.buf = <<>> /\ stdout_pipe.closed
       ELSE stderr_pipe.buf = <<>> /\ stderr_pipe.closed
    /\ pool' = Schedule([pool EXCEPT ![t] = "done"])
    /\ UNCHANGED <<vars_mount, vars_runner, vars_fs, vars_run, outcome, process,
                   stdout_pipe, stderr_pipe, sink_out, sink_err>>

(* ------------------------------------------------------------ run, ending *)
TruthOfPositive(code) == code > 0

\* line 182: if return_code
Truth(code) == code # 0

\* a pool left without waiting for its tasks
PoolNotJoined == TRUE

\* leaving the with block of line 175: shutdown(wait=True) has joined both tasks
PoolJoined == pool.stdout = "done" /\ pool.stderr = "done"

\* lines 175-183: leave the pool (both tasks joined), leave Popen (the child
\* waited for), poll, raise or return
run_return ==
    /\ pc = "pool_exit"
    /\ PoolJoined
    /\ process.exited
    /\ process' = [process EXCEPT !.returncode = Some(process.status)]
    /\ return_code' = Some(process.status)
    /\ pc' = "idle"
    /\ outcome' =
           IF Truth(process.status)
           THEN Raised("run", [self |-> run_self, cargs |-> cargs],
                       StyxDockerError(process.status, cargs, Strings(docker_command[1])))
           ELSE Returned("run", [self |-> run_self, cargs |-> cargs], [none |-> TRUE])
    /\ UNCHANGED <<vars_mount, vars_runner, vars_fs, spawned, run_self, cargs,
                   docker_command, stdout_pipe, stderr_pipe, pool, sink_out, sink_err>>

(* ----------------------------------------------------------------- inputs *)
Streams == {"stdout", "stderr"}

\* what a child writes as one line: "a\n", "\n", and "bc" with no line terminator
Lines == {<<"a", "\n">>, <<"\n">>, <<"b", "c">>}

Terminated(line) == line # <<>> /\ line[Len(line)] = "\n"

\* only the last line a child writes to a stream can lack its terminator
IsScript(s) ==
    \A i, j \in 1..Len(s) : i < j /\ s[i].stream = s[j].stream => Terminated(s[i].line)

RECURSIVE WriteSeqs(_)
WriteSeqs(n) ==
    IF n = 0 THEN {<<>>}
    ELSE LET shorter == WriteSeqs(n - 1)
         IN shorter \cup {Append(s, w) : s \in shorter, w \in [stream : Streams, line : Lines]}

\* exit statuses: success, failure, killed by signal 9
ExitStatuses == {0, 1, -9}

Programs(n) == [script : {s \in WriteSeqs(n) : IsScript(s)}, status : ExitStatuses]

\* the children of the specifications that are not about the pump
FewPrograms ==
    {[script |-> <<>>, status |-> 0],
     [script |-> <<[stream |-> "stdout", line |-> <<"a", "\n">>]>>, status |-> 1]}

Metadatas == [name : {<<"n">>}, container_image_tag : {None, Some(<<"t">>), Some(<<"u">>)}]

(* ------------------------------------------ specification: the whole API *)
Init ==
    /\ InitMountIdle
    /\ _HOST_UID \in {None, Some(5)}
    /\ \E image_overrides \in {None, Some(<<<<<<"t">>, <<"v">>>>>>)},
          user_id \in {None, Some(0), Some(7)} :
          /\ init_args = InitArgs(image_overrides, L_docker, user_id, None, None)
          /\ runner = DockerRunner(image_overrides, L_docker, user_id, None, None,
                                   _HOST_UID, <<"c", "0">>)
    /\ starts = NoStarts
    /\ executions = <<>>
    /\ resolved = <<>>
    /\ InitRunIdle

Pump ==
    \/ child_write
    \/ child_exit
    \/ \E t \in Streams : drain(t)
    \/ \E t \in Streams : drain_eof(t)
    \/ run_return

Next ==
    \/ \E metadata \in Metadatas : start_execution(metadata)
    \/ \E self \in DOMAIN executions : output_file(self, <<"o">>, FALSE)
    \/ \E self \in DOMAIN executions : run(self, <<<<"t">>>>, FewPrograms, NoFaults)
    \/ Pump

Spec == Init /\ [][Next]_vars

(* ------------------------------------ specification: one _DockerExecution *)
\* two files of the same name in directories of the same name: one given
\* relative to the working directory, one under a directory with a quote in its name
HostFiles == {<<"d", "/", "f">>,
              <<"/", "q", DQ, "/", "d", "/", "f">>}

InitCtx ==
    /\ InitMountIdle
    /\ _HOST_UID = None
    /\ \E user_id \in {None, Some(7)},
          environ \in {None, Some(<<<<<<"A">>, <<"1">>>>>>),
                       Some(<<<<<<"A">>, <<"1">>>>, <<<<"B">>, <<"2">>>>>>)} :
          LET r == DockerRunner(None, L_docker, user_id, None, environ, _HOST_UID,
                                <<"c", "0">>)
              metadata == [name |-> <<"n">>, container_image_tag |-> Some(<<"t">>)]
          IN /\ init_args = InitArgs(None, L_docker, user_id, None, environ)
             /\ runner = [r EXCEPT !.execution_counter = 1]
             /\ executions = <<NewExecution(r, metadata)>>
    /\ starts = NoStarts
    /\ resolved = <<<<>>>>
    /\ InitRunIdle

\* relative paths of outputs: a file, and a file in a subdirectory
OutputFiles == {<<"o">>, <<"s", "/", "o">>}

NextCtx ==
    \/ \E self \in DOMAIN executions, host_file \in HostFiles,
          resolve_parent \in BOOLEAN, mutable \in BOOLEAN :
          input_file(self, host_file, resolve_parent, mutable)
    \/ \E self \in DOMAIN executions, local_file \in OutputFiles, optional \in BOOLEAN :
          output_file(self, local_file, optional)
    \/ \E self \in DOMAIN executions : run(self, <<<<"t">>>>, FewPrograms, NoFaults)
    \/ Pump

SpecCtx == InitCtx /\ [][NextCtx]_vars

(* ------------------------------------------------ specification: the pump *)
\* The state run is in once the child is spawned and the two tasks are submitted.
InitPump ==
    /\ InitMountIdle
    /\ _HOST_UID = Some(5)
    /\ init_args = InitArgs(None, L_docker, None, None, None)
    /\ starts = NoStarts
    /\ LET r == DockerRunner(None, L_docker, None, None, None, _HOST_UID, <<"c", "0">>)
           metadata == [name |-> <<"n">>, container_image_tag |-> Some(<<"t">>)]
           e == NewExecution(r, metadata)
       IN /\ runner = [r EXCEPT !.execution_counter = 1]
          /\ executions = <<e>>
          /\ outcome = Pending("run", [self |-> 1, cargs |-> <<<<"t">>>>])
          /\ fs_dirs = MadeDirs(e.output_dir)
          /\ fs_files = Written({}, as_posix(PathJoin(e.output_dir, L_script_name)),
                                RunScript(<<<<"t">>>>))
          /\ docker_command = Some(DockerCommand(e))
    /\ resolved = <<<<>>>>
    /\ spawned = <<1>>
    /\ pc = "pool_exit"
    /\ run_self = 1
    /\ cargs = <<<<"t">>>>
    /\ \E program \in Programs(MaxWrites) :
          process = [script |-> program.script, status |-> program.status,
                     ip |-> 1, exited |-> FALSE, returncode |-> None]
    /\ stdout_pipe = NoPipe
    /\ stderr_pipe = NoPipe
    /\ pool = Schedule([stdout |-> "queued", stderr |-> "queued"])
    /\ sink_out = <<>>
    /\ sink_err = <<>>
    /\ return_code = None

SpecPump == InitPump /\ [][Pump]_vars

\* The scheduler gives every thread and the child its turn.
SpecPumpFair ==
    /\ SpecPump
    /\ WF_vars(child_write)
    /\ WF_vars(child_exit)
    /\ \A t \in Streams : WF_vars(drain(t))
    /\ \A t \in Streams : WF_vars(drain_eof(t))
    /\ WF_vars(run_return)

(* ----------------------------------------------------------------- claims *)
\* run has returned or raised
RunOver == pc = "idle" /\ outcome.op = "run"

\* the lines a script writes to one stream, in order
RECURSIVE LinesTo(_, _)
LinesTo(script, stream) ==
    IF script = <<>> THEN <<>>
    ELSE (IF Head(script).stream = stream THEN <<Head(script).line>> ELSE <<>>)
         \o LinesTo(Tail(script), stream)

\* the child's next write waits for room in its pipe
ChildBlockedOn(stream) ==
    /\ pc # "idle"
    /\ ~process.exited
    /\ process.ip <= Len(process.script)
    /\ process.script[process.ip].stream = stream
    /\ Len(IF stream = "stdout" THEN stdout_pipe.buf ELSE stderr_pipe.buf) >= PipeCap

(* C1: the container paths input_file returned for one execution are pairwise
   distinct, and so are the mount targets recorded in input_mounts. *)
C1_DistinctPaths ==
    \A self \in DOMAIN executions :
        \A i, j \in DOMAIN resolved[self] :
            i # j => /\ resolved[self][i] # resolved[self][j]
                     /\ executions[self].input_mounts[i][2]
                            # executions[self].input_mounts[j][2]

\* two different host files of the same name, in directories of the same name,
\* registered as files on one execution
C1_Witness ==
    \E self \in DOMAIN executions :
        /\ Len(executions[self].input_mounts) >= 2
        /\ LET a == executions[self].input_mounts[1][1]
               b == executions[self].input_mounts[2][1]
           IN /\ a # b
              /\ PathName(a) = PathName(b)
              /\ PathName(PathParent(a)) = PathName(PathParent(b))
              /\ resolved[self][1] = executions[self].input_mounts[1][2]
              /\ resolved[self][2] = executions[self].input_mounts[2][2]

(* C2: a run with a spawned child never has the child waiting on a full pipe
   whose drain task is not reading it, and under fair scheduling it ends:
   the child has exited, both streams are at end-of-file, run has returned
   or raised. *)
C2_NoDeadlock ==
    /\ [](\A t \in Streams : ChildBlockedOn(t) => pool[t] = "running")
    /\ <>(/\ RunOver
          /\ process.exited
          /\ stdout_pipe = [buf |-> <<>>, closed |-> TRUE]
          /\ stderr_pipe = [buf |-> <<>>, closed |-> TRUE])

\* the child waits on a full stderr pipe while the stdout drain has nothing to read
C2_Witness ==
    /\ ChildBlockedOn("stderr")
    /\ stdout_pipe.buf = <<>>
    /\ pool.stdout = "running"

(* C3: once the exit status is read (and so before an error is raised) both
   drain tasks have ended and each sink was called once per line the child
   wrote to its stream. *)
C3_DrainedBeforeStatus ==
    (return_code # None \/ process.returncode # None \/ RunOver) =>
        /\ pool.stdout = "done" /\ pool.stderr = "done"
        /\ Len(sink_out) = Len(LinesTo(process.script, "stdout"))
        /\ Len(sink_err) = Len(LinesTo(process.script, "stderr"))

\* a failing run whose child wrote to both streams
C3_Witness ==
    /\ RunOver
    /\ outcome.exc # None
    /\ sink_out # <<>>
    /\ sink_err # <<>>

(* C4: a run whose child exits with status 0 returns; a run whose child exits
   with another status raises StyxDockerError with that status, cargs and the
   docker command; there is no other outcome. *)
C4_ExitStatus ==
    RunOver =>
        IF process.status = 0
        THEN outcome.exc = None
        ELSE outcome.exc = Some([type |-> "StyxDockerError",
                                 return_code |-> process.status,
                                 command_args |-> cargs,
                                 message_extra |->
                                     Some(L_docker_args
                                          \o shlex_join(Strings(docker_command[1])))])

\* a child killed by a signal: the run raised with the negative status
C4_Witness ==
    /\ RunOver
    /\ process.status < 0
    /\ outcome.exc # None
    /\ outcome.exc[1].return_code = process.status

\* a line without its trailing line terminator, every other character kept
Stripped(line) == IF Terminated(line) THEN SubSeq(line, 1, Len(line) - 1) ELSE line

(* C5: when run is over, the stdout sink has received the lines the child
   wrote to stdout, in order, each without its line terminator and otherwise
   whole (a last line without terminator included); likewise stderr. *)
C5_SinksGetLines ==
    RunOver =>
        /\ sink_out = [i \in 1..Len(LinesTo(process.script, "stdout")) |->
                          Stripped(LinesTo(process.script, "stdout")[i])]
        /\ sink_err = [i \in 1..Len(LinesTo(process.script, "stderr")) |->
                          Stripped(LinesTo(process.script, "stderr")[i])]

\* Reverse the quoting, left to right: \" becomes ", \\ becomes \.
RECURSIVE Unquote(_)
Unquote(s) ==
    IF s = <<>> THEN <<>>
    ELSE IF Len(s) >= 2 /\ s[1] = BS /\ s[2] \in {DQ, BS}
         THEN <<s[2]>> \o Unquote(SubSeq(s, 3, Len(s)))
         ELSE <<s[1]>> \o Unquote(Tail(s))

\* the text after "source=" up to ",target=" of a descriptor
SourceField(d) ==
    SubSeq(d, Len(L_type_bind_source) + 1, Find(d, L_target) - 1)

\* the text after "target=" of a descriptor, without the ",readonly" flag
TargetField(d, readonly) ==
    SubSeq(d, Find(d, L_target) + Len(L_target),
           Len(d) - (IF readonly THEN Len(L_readonly) ELSE 0))

(* C6: reversing the quoting of the source= and target= fields of
   _docker_mount's output gives back the host path and the container path. *)
C6_RoundTrip ==
    mount_ret # None =>
        /\ Unquote(SourceField(mount_ret[1])) = mount_args.host_path
        /\ Unquote(TargetField(mount_ret[1], mount_args.readonly))
               = mount_args.container_path

\* the command as run has just built it: run is under way, or has just ended
CommandBuilt == docker_command # None /\ (pc = "pool_exit" \/ RunOver)

\* "--env", "KEY=VALUE" for each item of environ, in order
RECURSIVE EnvStrings(_)
EnvStrings(environ) ==
    IF environ = <<>> THEN <<>>
    ELSE <<L_env, environ[1][1] \o <<"=">> \o environ[1][2]>> \o EnvStrings(Tail(environ))

(* C7: the docker command run builds is a flat list of strings: executable,
   run, --rm, optionally -u and the uid, -w, /styx_output, --mount and a
   descriptor per mount, --entrypoint, /bin/bash, --env and KEY=VALUE per
   item of environ, the image tag, ./run.sh. *)
C7_CommandShape ==
    CommandBuilt =>
        \E e \in {executions[run_self]} : \E command \in {docker_command[1]} :
            /\ \A i \in 1..Len(command) : command[i].kind = "str"
            /\ \E user \in {<<>>} \cup {<<L_u, Str(e.docker_user_id[k])>> :
                                           k \in 1..Len(e.docker_user_id)} :
                LET strs == Strings(command)
                    front == <<e.docker_executable, L_run, L_rm>> \o user
                                 \o <<L_w, L_styx_output>>
                    n == Len(e.input_mounts) + 1
                    back == <<L_entrypoint, L_bin_bash>> \o EnvStrings(e.environ)
                                \o <<e.container_tag, L_run_sh>>
                IN /\ Len(strs) = Len(front) + 2 * n + Len(back)
                   /\ SubSeq(strs, 1, Len(front)) = front
                   /\ \A k \in 1..n : strs[Len(front) + 2 * k - 1] = L_mount
                   /\ SubSeq(strs, Len(front) + 2 * n + 1, Len(strs)) = back

\* the strings that follow a "--mount" in a command, in order
RECURSIVE MountDescriptors(_)
MountDescriptors(strs) ==
    IF Len(strs) < 2 THEN <<>>
    ELSE IF strs[1] = L_mount
         THEN <<strs[2]>> \o MountDescriptors(SubSeq(strs, 3, Len(strs)))
         ELSE MountDescriptors(Tail(strs))

\* descriptor d binds host path source to target, read-only or not
Binds(d, source, target, readonly) ==
    /\ StartsWith(d, L_type_bind_source)
    /\ EndsWith(d, L_readonly) <=> readonly
    /\ Unquote(SourceField(d)) = source
    /\ Unquote(TargetField(d, readonly)) = target

(* C8: the mounts of the docker command are one descriptor per registration,
   in registration order, binding the registered host path to the slot path
   assigned at registration, read-only exactly when mutable was false, and
   then one descriptor binding the output directory to /styx_output, never
   read-only. *)
C8_Mounts ==
    CommandBuilt =>
        \E e \in {executions[run_self]} :
        \E ds \in {MountDescriptors(Strings(docker_command[1]))} :
            /\ Len(ds) = Len(e.input_mounts) + 1
            /\ \A i \in 1..Len(e.input_mounts) :
                   Binds(ds[i], as_posix(absolute(e.input_mounts[i][1])),
                         e.input_mounts[i][2], ~e.input_mounts[i][3])
            /\ Binds(ds[Len(ds)], as_posix(absolute(e.output_dir)), L_styx_output, FALSE)

\* the string before the final ./run.sh of the docker command
ImageArgument == docker_command[1][Len(docker_command[1]) - 1].items[1]

(* C9: the image argument of the docker command of a run is the override of
   the metadata's image tag when image_overrides has one, and the tag itself
   otherwise. *)
C9_ImageOverride ==
    CommandBuilt =>
        LET tag == executions[run_self].metadata.container_image_tag[1]
            overrides == runner.image_overrides
        IN /\ \A i \in 1..Len(overrides) :
                  overrides[i][1] = tag => ImageArgument = overrides[i][2]
           /\ (\A i \in 1..Len(overrides) : overrides[i][1] # tag) => ImageArgument = tag

\* a run of an execution whose tag has an override
C9_Witness ==
    /\ CommandBuilt
    /\ spawned # <<>>
    /\ \E i \in 1..Len(runner.image_overrides) :
          /\ runner.image_overrides[i][1]
                 = executions[run_self].metadata.container_image_tag[1]
          /\ runner.image_overrides[i][2]
                 # executions[run_self].metadata.container_image_tag[1]

\* the step is a start_execution call, or leaves everything as it is
StartStep == outcome'.op = "start_execution"

(* C10: a start_execution on a metadata without image tag raises ValueError
   and changes nothing: no execution is created, the runner (its counter, uid
   and policy), the files and the spawned processes stay as they were; a
   start that succeeds gets the index and output directory given by the
   number of starts that succeeded before it. *)
C10_FailedStart ==
    [][/\ (StartStep /\ outcome'.args.metadata.container_image_tag = None) =>
              /\ outcome'.exc = Some(ValueError)
              /\ UNCHANGED <<runner, executions, resolved, vars_fs, vars_pump, vars_run>>
       /\ (StartStep /\ outcome'.args.metadata.container_image_tag # None) =>
              /\ outcome'.exc = None
              /\ Len(executions') <= Len(executions) + 1
              /\ executions'[Len(executions')].output_dir =
                     PathJoin(runner.data_dir,
                              runner.uid \o <<"_">> \o Str(Len(executions') - 1)
                                  \o <<"_">> \o outcome'.args.metadata.name)
      ]_vars

\* a start has just failed on a runner that had already started an execution
C10_Witness ==
    /\ outcome.op = "start_execution"
    /\ outcome.exc = Some(ValueError)
    /\ runner.execution_counter = 1
    /\ Len(executions) = 1

(* --------------------------------- specification: starts on one DockerRunner *)
\* invocation names: a plain one, and one that itself holds a digit and the separator
StartMetadatas == [name : {<<"n">>, <<"1", "_", "n">>},
                   container_image_tag : {None, Some(<<"t">>)}]

NextStart == \E metadata \in StartMetadatas : start_execution(metadata)

SpecStart == Init /\ [][NextStart]_vars

\* the step is a start_execution call that returned a new execution
StartedStep == Len(executions') = Len(executions) + 1

(* C11: the output directories of the executions one DockerRunner returned
   are pairwise distinct, whatever the names and with failing starts in
   between; the execution counter never decreases: a successful start adds
   exactly one to it and any other step leaves it as it is. *)
C11_DistinctOutputDirs ==
    /\ [](\A i, j \in DOMAIN executions :
              i # j => /\ executions[i].output_dir # executions[j].output_dir
                       /\ as_posix(executions[i].output_dir)
                              # as_posix(executions[j].output_dir))
    /\ [][runner'.execution_counter =
              runner.execution_counter + (IF StartedStep THEN 1 ELSE 0)]_vars

\* two starts under the same name, then a start that failed
C11_Witness ==
    /\ Len(executions) >= 2
    /\ executions[1].metadata.name = executions[2].metadata.name
    /\ outcome.op = "start_execution"
    /\ outcome.exc = Some(ValueError)

\* the step is an output_file call
OutputFileStep == outcome'.op = "output_file"

(* C12: output_file returns the execution's output directory joined with the
   relative path it was given, for either value of optional, and changes
   nothing: not the mounts, the slot counter, the output directory or the
   filesystem; and no step of any operation changes an execution's output
   directory, so the same relative path gives the same result at any time. *)
C12_OutputFilePure ==
    /\ [][OutputFileStep =>
             /\ as_posix(outcome'.ret.path)
                    = as_posix(executions[outcome'.args.self].output_dir)
                          \o <<"/">> \o outcome'.args.local_file
             /\ UNCHANGED <<runner, executions, resolved, fs_dirs, fs_files, spawned>>]_vars
    /\ [][\A self \in DOMAIN executions :
             executions'[self].output_dir = executions[self].output_dir]_vars

\* output_file(..., optional=True) on an execution with a registered input,
\* before any run: the output directory is not on disk
C12_Witness ==
    /\ outcome.op = "output_file"
    /\ outcome.args.optional
    /\ executions[outcome.args.self].input_mounts # <<>>
    /\ as_posix(executions[outcome.args.self].output_dir) \notin fs_dirs

\* the command holds "-u" followed by the decimal string of uid
HasUserFlag(strs, uid) ==
    \E i \in 1..(Len(strs) - 1) : strs[i] = L_u /\ strs[i + 1] = Str(uid)

(* C13: the docker command of a run holds "-u" and the decimal string of the
   user id the DockerRunner was constructed with, for every id including 0;
   when none was given it holds "-u" and the host's uid where the host has
   one; "-u" is absent only when both are none. *)
C13_UserFlag ==
    CommandBuilt =>
        \E strs \in {Strings(docker_command[1])} :
            IF init_args.user_id # None
            THEN HasUserFlag(strs, init_args.user_id[1])
            ELSE IF _HOST_UID # None
            THEN HasUserFlag(strs, _HOST_UID[1])
            ELSE \A i \in 1..Len(strs) : strs[i] # L_u

(* ------------------------------------------- specification: registrations *)
\* host files: also a bare file name and a file directly under the root
InputFiles == HostFiles \cup {<<"f">>, <<"/", "f">>}

NextInput ==
    \E self \in DOMAIN executions, host_file \in InputFiles,
       resolve_parent \in BOOLEAN, mutable \in BOOLEAN :
       input_file(self, host_file, resolve_parent, mutable)

SpecInput == InitCtx /\ [][NextInput]_vars

\* the last call was input_file
Registered == outcome.op = "input_file"

\* container path c taken back to the host through a mount of host path
\* host at target: the target prefix replaced by the mounted host path
BackToHost(c, host, target) ==
    IF c = target THEN host ELSE PathJoin(host, SubSeq(c, Len(target) + 2, Len(c)))

(* C14: after input_file(p, resolve_parent=True) the mount just recorded is
   the directory holding p, one component shorter than p, and the returned
   path is the mount's target, "/", and the file name of p, so that taking it
   back through the mount gives p; after input_file(p, resolve_parent=False)
   the mount is p itself and the returned path is the mount's target. *)
C14_ParentMount ==
    Registered =>
        LET e == executions[outcome.args.self]
            mount == e.input_mounts[Len(e.input_mounts)]
            file == Path(outcome.args.host_file)
            returned == outcome.ret.str
        IN /\ BackToHost(returned, mount[1], mount[2]) = file
           /\ IF outcome.args.resolve_parent
              THEN /\ Len(mount[1].parts) = Len(file.parts) - 1
                   /\ mount[1].root = file.root
                   /\ returned = mount[2] \o <<"/">> \o PathName(file)
              ELSE /\ mount[1] = file
                   /\ returned = mount[2]

\* the second registration of an execution, of d/f with its parent directory
C14_Witness ==
    /\ Registered
    /\ outcome.args.resolve_parent
    /\ outcome.args.host_file = <<"d", "/", "f">>
    /\ Len(executions[outcome.args.self].input_mounts) = 2

(* ---------------------------------------------------- specification: runs *)
\* argument vectors: one word, and one with an argument that needs quoting
RunCargs == {<<<<"t">>>>, <<<<"t">>, <<"x", " ", "y">>>>}

\* two started executions; with an environ, run raises before it spawns
InitRun ==
    /\ InitMountIdle
    /\ _HOST_UID = None
    /\ \E environ \in {None, Some(<<<<<<"A">>, <<"1">>>>>>)} :
          LET r == DockerRunner(None, L_docker, None, None, environ, _HOST_UID,
                                <<"c", "0">>)
              metadata == [name |-> <<"n">>, container_image_tag |-> Some(<<"t">>)]
              r1 == [r EXCEPT !.execution_counter = 1]
          IN /\ init_args = InitArgs(None, L_docker, None, None, environ)
             /\ runner = [r EXCEPT !.execution_counter = 2]
             /\ executions = <<NewExecution(r, metadata), NewExecution(r1, metadata)>>
    /\ starts = NoStarts
    /\ resolved = <<<<>>, <<>>>>
    /\ InitRunIdle

NextRun ==
    \/ \E self \in DOMAIN executions, args \in RunCargs :
          run(self, args, FewPrograms, FsFaults)
    \/ Pump

SpecRun == InitRun /\ [][NextRun]_vars

\* the step is a call of run: it spawns, or raises before it would
RunCallStep == pc = "idle" /\ outcome'.op = "run"

\* the output directory of the execution of the last run call exists and its
\* run.sh holds the shebang line and the quoted arguments of that call
ScriptInPlace ==
    /\ run_self \in DOMAIN executions
    /\ LET dir == executions[run_self].output_dir
       IN /\ as_posix(dir) \in fs_dirs
          /\ [path |-> as_posix(dir) \o <<"/">> \o L_script_name,
              content |-> L_shebang \o shlex_join(cargs) \o <<"\n">>] \in fs_files

(* C15: every step that spawns a child ends in a state where the output
   directory exists and run.sh holds the shebang line and the shell-quoted
   arguments of this run call; a run call that leaves them otherwise (mkdir
   or write_text failed) raised that OSError and nothing else, spawned no
   child and called no sink. *)
C15_ScriptBeforeSpawn ==
    /\ [][Len(spawned') > Len(spawned) => ScriptInPlace']_vars
    /\ [][RunCallStep /\ ~ScriptInPlace' =>
             /\ outcome'.exc # None
             /\ outcome'.exc[1].type = "OSError"
             /\ pc' = "idle"
             /\ UNCHANGED <<spawned, vars_pump, fs_files>>]_vars

\* a child spawned for ['t', 'x y']: run.sh quotes the second argument
C15_Witness ==
    /\ pc = "pool_exit"
    /\ cargs = <<<<"t">>, <<"x", " ", "y">>>>
    /\ [path |-> <<"s","t","y","x","_","t","m","p","/","c","0","_","0","_","n","/",
                   "r","u","n",".","s","h">>,
        content |-> <<"#","!","/","b","i","n","/","b","a","s","h","\n",
                      "t"," ","'","x"," ","y","'","\n">>] \in fs_files

(* C16: in every state the slot counter of an execution equals the number of
   its recorded mounts and the i-th mount (counting from 0) has its target
   under /styx_input/i/; no step decreases the counter, and a step of
   output_file or of run (returning or raising) leaves the counter and the
   mounts as they are. *)
C16_SlotCounter ==
    /\ [](\A self \in DOMAIN executions :
              \E e \in {executions[self]} :
                  /\ e.input_file_next_id = Len(e.input_mounts)
                  /\ \A i \in DOMAIN e.input_mounts :
                         StartsWith(e.input_mounts[i][2],
                                    L_styx_input \o Str(i - 1) \o <<"/">>))
    /\ [][/\ \A self \in DOMAIN executions :
                  executions'[self].input_file_next_id
                      >= executions[self].input_file_next_id
           /\ (outcome'.op \in {"output_file", "run"} => executions' = executions)]_vars

\* a registration made after a run of the same execution took slot 1
C16_Witness ==
    /\ Registered
    /\ outcome.args.self \in {spawned[i] : i \in DOMAIN spawned}
    /\ executions[outcome.args.self].input_file_next_id = 2
    /\ fs_files # {}

(* --------------------- specification: start_execution called from threads *)
\* The threads share the one DockerRunner and nothing orders their calls: a
\* thread may be switched out between any two reads or writes of
\* self.execution_counter.

\* thread t is inside start_execution, past the tag check
InStart(t) == starts.thread[t].pc # "idle"

\* lines 220-224: the tag check and the override lookup
start_check(t, metadata) ==
    /\ pc = "idle"
    /\ ~InStart(t)
    /\ IF metadata.container_image_tag = None
       THEN /\ outcome' = Raised("start_execution", [metadata |-> metadata], ValueError)
            /\ UNCHANGED starts
       ELSE /\ Len(executions) + Cardinality({u \in Threads : InStart(u)}) < MaxExec
            /\ starts' = [starts EXCEPT !.thread =
                   [u \in Threads |->
                       IF u = t
                       THEN [pc |-> "load", metadata |-> metadata, counter |-> 0,
                             overlapped |-> \E v \in Threads : InStart(v)]
                       ELSE IF InStart(u) THEN [starts.thread[u] EXCEPT !.overlapped = TRUE]
                       ELSE starts.thread[u]]]
            /\ UNCHANGED outcome
    /\ UNCHANGED <<vars_mount, vars_config, runner, executions, resolved, vars_fs,
                   vars_pump, vars_run>>

\* line 225, self.execution_counter += 1: the read
start_load(t) ==
    /\ starts.thread[t].pc = "load"
    /\ starts' = [starts EXCEPT !.thread[t].pc = "store",
                                !.thread[t].counter = runner.execution_counter]
    /\ UNCHANGED <<vars_mount, vars_config, runner, executions, resolved, vars_fs,
                   vars_pump, vars_run, outcome>>

\* an assignment of 1 where the code adds 1
start_store_one(t) ==
    /\ starts.thread[t].pc = "store"
    /\ runner' = [runner EXCEPT !.execution_counter = 1]
    /\ starts' = [starts EXCEPT !.thread[t].pc = "build"]
    /\ UNCHANGED <<vars_mount, vars_config, executions, resolved, vars_fs,
                   vars_pump, vars_run, outcome>>

\* line 225, self.execution_counter += 1: the write
start_store(t) ==
    /\ starts.thread[t].pc = "store"
    /\ runner' = [runner EXCEPT !.execution_counter = starts.thread[t].counter + 1]
    /\ starts' = [starts EXCEPT !.thread[t].pc = "build"]
    /\ UNCHANGED <<vars_mount, vars_config, executions, resolved, vars_fs,
                   vars_pump, vars_run, outcome>>

\* lines 226-235: the directory name is built from the counter as it is now
start_return(t) ==
    /\ starts.thread[t].pc = "build"
    /\ LET metadata == starts.thread[t].metadata
           r == [runner EXCEPT !.execution_counter = @ - 1]
       IN /\ executions' = Append(executions, NewExecution(r, metadata))
          /\ outcome' = Returned("start_execution", [metadata |-> metadata],
                                 [execution |-> Len(executions) + 1])
    /\ resolved' = Append(resolved, <<>>)
    /\ starts' = [thread |-> [starts.thread EXCEPT ![t] = [pc |-> "idle"]],
                  overlapped |-> Append(starts.overlapped, starts.thread[t].overlapped)]
    /\ UNCHANGED <<vars_mount, vars_config, runner, vars_fs, vars_pump, vars_run>>

NextRace ==
    \E t \in Threads :
        \/ \E metadata \in Metadatas : start_check(t, metadata)
        \/ start_load(t)
        \/ start_store(t)
        \/ start_return(t)

SpecRace == Init /\ [][NextRace]_vars

\* executions i and j were given the same output directory
SameOutputDir(i, j) == executions[i].output_dir = executions[j].output_dir

(* C17: start_execution calls made from two threads without serialization can
   return two executions with the same output directory; two executions get
   the same directory only if the call that returned one of them was under
   way while another call was: calls made one after another never collide. *)
C17_CollisionOnlyWhenInterleaved ==
    \A i, j \in DOMAIN executions :
        i # j /\ SameOutputDir(i, j) => starts.overlapped[i] \/ starts.overlapped[j]

\* two interleaved starts under the same name returned the same directory:
\* both executions would write the same run.sh and mount the same output
C17_Witness ==
    \E i, j \in DOMAIN executions :
        /\ i # j
        /\ SameOutputDir(i, j)
        /\ executions[i].metadata.name = executions[j].metadata.name
        /\ PathJoin(executions[i].output_dir, L_script_name)
               = PathJoin(executions[j].output_dir, L_script_name)
        /\ starts.overlapped[i] /\ starts.overlapped[j]

(* C18: over the life of an execution at most one child is spawned for it:
   once run has been called on it, no later run call spawns another. *)
C18_SingleRun ==
    \A i, j \in DOMAIN spawned : i # j => spawned[i] # spawned[j]

\* the k-th execution's output directory is the data directory and one more
\* component: the runner's uid, sep, k - 1, sep, the invocation name
DirNamedWith(sep, k) ==
    /\ Len(executions[k].output_dir.parts) = Len(runner.data_dir.parts) + 1
    /\ as_posix(executions[k].output_dir)
           = as_posix(runner.data_dir) \o <<"/">> \o runner.uid \o sep \o Str(k - 1)
                 \o sep \o executions[k].metadata.name

(* C19, as stated: the output directory of the k-th successful start is the
   data directory joined with the component uid, "-", execution index, "-",
   invocation name. *)
C19_HyphenDirName ==
    \A k \in DOMAIN executions : DirNamedWith(<<"-">>, k)

(* C19, amended: the output directory of the k-th successful start is the
   data directory joined with the component uid, "_", k - 1, "_", invocation
   name; the uid is the runner's for every execution and the index differs
   from start to start. *)
C19_UnderscoreDirName ==
    \A k \in DOMAIN executions : DirNamedWith(<<"_">>, k)

\* the second start, under a name that itself holds the separator
C19_Witness ==
    /\ Len(executions) = 2
    /\ executions[2].metadata.name = <<"1", "_", "n">>
    /\ as_posix(executions[2].output_dir)
           = <<"s","t","y","x","_","t","m","p","/","c","0","_","1","_","1","_","n">>
====
